---- MODULE Spec2Model ----
(***************************************************************************)
(* A model of pyfsdb-viewer: the FsdbView session (view.py) with its       *)
(* version stack of file names, and the ProcessLoader                      *)
(* (dataloader/processloader.py) with its incremental row loading.         *)
(*                                                                         *)
(* Files are modelled by their parsed content: whether an fsdb header can  *)
(* be parsed (wf), the header's columns, the data rows (one tuple of       *)
(* values per row, in column order) and the trailing provenance comments   *)
(* (cmds).  The file system is a function from the paths that exist to     *)
(* their content.                                                          *)
(***************************************************************************)
EXTENDS Integers, Sequences, FiniteSets, TLC

\* ------------------------------------------------------------------ bounds
\* Number of data rows of the input file of a viewer session.
MaxRows == 2
\* Number of data rows of the largest input file of a ProcessLoader.
MaxStream == 3
\* Number of temporary files a session may create (tempfile names are fresh).
MaxTmp == 2
\* Largest row quota (max_rows) a caller passes.
MaxQuota == 1
\* Capacity of an operating-system pipe, in bytes.
PipeCap == 1
\* Largest input a program is given, in bytes.
MaxInput == 2
\* Largest number of reads and writes a program makes before it exits.
MaxScript == 3

\* --------------------------------------------------------- program constants
\* max_rows = None: no quota (also what a quota of 0 means to `if max_rows`).
NoLimit == 0
\* The row filter of the tests: pdbrow 'a > 3'.
FilterMin == 3

VARIABLES
    \* FsdbView
    app,            \* "new" | "running" | "exited" | "crashed"
    exception,      \* the uncaught exception that ended the app, or "none"
    fs,             \* the file system: path -> content
    next_tmp,       \* number of temporary files created so far
    input_files,    \* FsdbView.input_files: the version stack of paths
    input_file,     \* FsdbView.input_file: an open file, or a str after a save
    max_rows,       \* FsdbView.max_rows
    loader,         \* FsdbView.loader
    rows,           \* FsdbView.rows
    data_table,     \* the DataTable widget: its columns and rows
    current_input,  \* the dialog mounted by mount_cmd_input_and_focus
    history_log,    \* the lines written to the history TextLog
    last_debug,     \* the last entry of FsdbView.debug_log
    last_op,        \* the last request handled, with its outcome
    applied,        \* history variable: commands of the pushes still in the stack
    hist,           \* history variable: "push" while only successful transforms
                    \* were requested, "pop" while only undos of them followed
    orig,           \* history variable: the content of the input at the start
    \* ProcessLoader and its caller
    pl,             \* the ProcessLoader object
    current_rows,   \* the caller's running row list
    pl_ret,         \* what the last load_more_data call returned
    pl_call,        \* the last ProcessLoader call and its arguments
    \* subprocess
    comm            \* the Popen object of a run: its pipes, the child, communicate

viewvars == <<app, exception, fs, next_tmp, input_files, input_file, max_rows,
              loader, rows, data_table, current_input, history_log, last_debug,
              last_op, applied, hist, orig>>
plvars == <<pl, current_rows, pl_ret, pl_call>>
vars == <<viewvars, plvars, comm>>

\* ------------------------------------------------------------ file contents
Columns == <<"a", "b", "c">>

\* The i-th data row of the input: its values for the columns a, b, c.
Row(i) == <<2 * i, i, 10 + i>>

\* A well-formed fsdb file with n data rows and no provenance comments.
Table(n) == [wf |-> TRUE, cols |-> Columns, rows |-> [i \in 1..n |-> Row(i)],
             cmds |-> <<>>]

\* A stream with no fsdb header (for instance no bytes at all).
NoTable == [wf |-> FALSE, cols |-> <<>>, rows |-> <<>>, cmds |-> <<>>]

\* Paths.
OrigPath == [kind |-> "arg", n |-> 0]
UserPath == [kind |-> "user", n |-> 0]
TmpPath(k) == [kind |-> "tmp", n |-> k]

Range(s) == {s[i] : i \in 1..Len(s)}
RemoveAt(s, i) == [j \in 1..(Len(s) - 1) |-> IF j < i THEN s[j] ELSE s[j + 1]]
IndexOf(s, x) == CHOOSE i \in 1..Len(s) : s[i] = x
Last(s) == s[Len(s)]
Front(s) == SubSeq(s, 1, Len(s) - 1)

\* ------------------------------------------------------- external programs
\* The commands the model runs.  pdbrow filters rows, dbcol keeps the named
\* columns, "true" and "false" write nothing and exit 0 and 1, "nosuch" is a
\* program that cannot be started.
CmdFilter == [name |-> "pdbrow", args |-> <<"a > 3">>]
CmdCol(keep) == [name |-> "dbcol", args |-> keep]
CmdTrue == [name |-> "true", args |-> <<>>]
CmdFalse == [name |-> "false", args |-> <<>>]
CmdNoSuch == [name |-> "nosuch", args |-> <<>>]

\* The values of row r (of a table with columns cols) for the columns keep.
Project(r, cols, keep) == [i \in 1..Len(keep) |-> r[IndexOf(cols, keep[i])]]

\* pdbrow 'a > 3': the rows whose a exceeds 3, under the input's header; the
\* command appends itself to the provenance comments.  It fails on an input
\* without header or without column a.
RunPdbrow(input) ==
    IF input.wf /\ "a" \in Range(input.cols)
    THEN LET KeepsRow(r) == r[IndexOf(input.cols, "a")] > FilterMin
         IN [launched |-> TRUE, rc |-> 0,
             out |-> [input EXCEPT !.rows = SelectSeq(input.rows, KeepsRow),
                                   !.cmds = Append(input.cmds, "pdbrow")],
             err |-> ""]
    ELSE [launched |-> TRUE, rc |-> 1, out |-> NoTable, err |-> "pdbrow: error"]

\* dbcol keep...: the named columns of every row.
RunDbcol(keep, input) ==
    IF input.wf /\ Range(keep) \subseteq Range(input.cols)
    THEN [launched |-> TRUE, rc |-> 0,
          out |-> [wf |-> TRUE, cols |-> keep,
                   rows |-> [i \in 1..Len(input.rows) |->
                                Project(input.rows[i], input.cols, keep)],
                   cmds |-> Append(input.cmds, "dbcol")],
          err |-> ""]
    ELSE [launched |-> TRUE, rc |-> 1, out |-> NoTable, err |-> "dbcol: error"]

\* Popen(command) and communicate(input): whether the program started, its
\* exit code, and what it wrote to stdout and stderr.
RunProgram(cmd, input) ==
    CASE cmd.name = "pdbrow" -> RunPdbrow(input)
      [] cmd.name = "dbcol" -> RunDbcol(cmd.args, input)
      [] cmd.name = "true" ->
            [launched |-> TRUE, rc |-> 0, out |-> NoTable, err |-> ""]
      [] cmd.name = "false" ->
            [launched |-> TRUE, rc |-> 1, out |-> NoTable, err |-> ""]
      [] OTHER ->
            [launched |-> FALSE, rc |-> 127, out |-> NoTable,
             err |-> "No such file or directory"]

\* ------------------------------------------------------------- pyfsdb.Fsdb
\* pyfsdb.Fsdb(file_handle=...): the header is parsed when the handle is
\* given; a stream without header raises.  The object iterates over the data
\* rows from a position that only moves forward.
NoFsh == [open |-> FALSE, cols |-> <<>>, stream |-> <<>>, pos |-> 0, cmds |-> <<>>]
Fsdb(content) == [open |-> TRUE, cols |-> content.cols, stream |-> content.rows,
                  pos |-> 0, cmds |-> content.cmds]

\* ------------------------------------------------------------ ProcessLoader
NoLoader == [built |-> FALSE, command |-> CmdTrue, input |-> NoTable,
             temp_file |-> NoTable, fsh |-> NoFsh]
NoCall == [op |-> "none", max_rows |-> NoLimit, pos0 |-> 0, rows0 |-> <<>>,
           raised |-> FALSE]

\* The mutant of PLStored: stderr is saved instead of stdout.
PLStoredStderr(output_data) == NoTable

\* processloader.py:47  self.temp_file.write(output_data[0])
PLStored(output_data) == output_data.out

\* ProcessLoader.run_pipe: the temporary file after the command ran on the
\* input file; it stays empty when the command could not be started.
PLRunPipe(command, input) ==
    LET output_data == RunProgram(command, input)
    IN IF output_data.launched THEN PLStored(output_data) ELSE NoTable

\* ProcessLoader.column_names
column_names(p) == p.fsh.cols

\* The mutant of LoadLoop: the quota is tested before the row is kept, so the
\* row read at a batch boundary is lost.
RECURSIVE LoadLoopDropping(_, _, _, _, _)
LoadLoopDropping(stream, pos, n, quota, more_rows) ==
    IF pos >= Len(stream)
    THEN [pos |-> pos, more_rows |-> more_rows]
    ELSE IF quota # NoLimit /\ n = quota
         THEN [pos |-> pos + 1, more_rows |-> more_rows]
         ELSE LoadLoopDropping(stream, pos + 1, n + 1, quota,
                               Append(more_rows, stream[pos + 1]))

\* The loop of load_more_data: for n, row in enumerate(self.fsh).  Each turn
\* reads the next row (the loop ends when there is none), appends it, and
\* breaks when the quota is set and n has reached it.
RECURSIVE LoadLoop(_, _, _, _, _)
LoadLoop(stream, pos, n, quota, more_rows) ==
    IF pos >= Len(stream)
    THEN [pos |-> pos, more_rows |-> more_rows]
    ELSE LET more == Append(more_rows, stream[pos + 1])
         IN IF quota # NoLimit /\ n = quota
            THEN [pos |-> pos + 1, more_rows |-> more]
            ELSE LoadLoop(stream, pos + 1, n + 1, quota, more)

\* The mutant of load_more_data: the whole list is returned, not only the rows
\* this call read.
load_more_data_returns_all(fsh, rows_in, quota) ==
    LET r == LoadLoop(fsh.stream, fsh.pos, 0, quota, <<>>)
    IN [fsh |-> [fsh EXCEPT !.pos = r.pos],
        current_rows |-> rows_in \o r.more_rows,
        ret |-> rows_in \o r.more_rows]

\* ProcessLoader.load_more_data(current_rows, max_rows): the iterator after the
\* call, the caller's list after the call, and the rows returned.
load_more_data(fsh, rows_in, quota) ==
    LET r == LoadLoop(fsh.stream, fsh.pos, 0, quota, <<>>)
    IN [fsh |-> [fsh EXCEPT !.pos = r.pos],
        current_rows |-> rows_in \o r.more_rows,
        ret |-> r.more_rows]

\* The commands a ProcessLoader is built with.
PLCommands == {CmdFilter, CmdTrue, CmdFalse, CmdNoSuch}
                 \cup {CmdCol(RemoveAt(Columns, i)) : i \in 1..Len(Columns)}

\* ProcessLoader(command, input_file_name)
PLInit(command, n) ==
    /\ ~pl.built
    /\ pl' = [built |-> TRUE, command |-> command, input |-> Table(n),
              temp_file |-> PLRunPipe(command, Table(n)), fsh |-> NoFsh]
    /\ pl_call' = [NoCall EXCEPT !.op = "init"]
    /\ UNCHANGED <<current_rows, pl_ret, viewvars, comm>>

\* ProcessLoader.load_data() by a caller that then starts an empty row list
\* (as FsdbView.load_data does); nothing is assigned when Fsdb raises.
PLLoadData ==
    /\ pl.built
    /\ IF pl.temp_file.wf
       THEN /\ pl' = [pl EXCEPT !.fsh = Fsdb(pl.temp_file)]
            /\ current_rows' = <<>>
            /\ pl_call' = [NoCall EXCEPT !.op = "load_data"]
       ELSE /\ pl_call' = [NoCall EXCEPT !.op = "load_data", !.raised = TRUE]
            /\ UNCHANGED <<pl, current_rows>>
    /\ pl_ret' = <<>>
    /\ UNCHANGED <<viewvars, comm>>

\* ProcessLoader.load_more_data(current_rows, max_rows)
PLLoadMoreData(quota) ==
    /\ pl.built
    /\ pl.fsh.open
    /\ LET r == load_more_data(pl.fsh, current_rows, quota)
       IN /\ pl' = [pl EXCEPT !.fsh = r.fsh]
          /\ current_rows' = r.current_rows
          /\ pl_ret' = r.ret
    /\ pl_call' = [op |-> "load_more_data", max_rows |-> quota,
                   pos0 |-> pl.fsh.pos, rows0 |-> current_rows, raised |-> FALSE]
    /\ UNCHANGED <<viewvars, comm>>

Quotas == {NoLimit} \cup (1..MaxQuota)

PLNext ==
    \/ \E command \in PLCommands, n \in 0..MaxStream : PLInit(command, n)
    \/ PLLoadData
    \/ \E quota \in Quotas : PLLoadMoreData(quota)

\* ---------------------------------------------------------------- FsdbLoader
\* The loader FsdbView uses (dataloader.FsdbLoader).  A loader holds the name
\* and the content of the file it was given and, once load_data has parsed the
\* header, the row iterator.
FsdbLoader(name, content) == [bound |-> FALSE, name |-> name, src |-> content,
                              fsh |-> NoFsh]
NoViewLoader == FsdbLoader(OrigPath, NoTable)

\* FsdbLoader.load_data: binds the iterator; raises on a stream without header.
FsdbLoaderLoadData(l) == [l EXCEPT !.bound = TRUE, !.fsh = Fsdb(l.src)]

\* FsdbLoader.load_more_data(rows, max_rows): up to max_rows further rows, or
\* all the remaining rows without a quota.
FsdbLoaderLoadMore(l, rows_in, quota) ==
    LET left == Len(l.fsh.stream) - l.fsh.pos
        take == IF quota = NoLimit \/ quota > left THEN left ELSE quota
        more_rows == SubSeq(l.fsh.stream, l.fsh.pos + 1, l.fsh.pos + take)
    IN [loader |-> [l EXCEPT !.fsh.pos = l.fsh.pos + take],
        rows |-> rows_in \o more_rows,
        ret |-> more_rows]

\* FsdbLoader.commands: the provenance comments, or None when they cannot be
\* parsed.
FsdbLoaderCommands(l) ==
    IF l.bound THEN [none |-> FALSE, list |-> l.fsh.cmds]
               ELSE [none |-> TRUE, list |-> <<>>]

\* ---------------------------------------------------------------- subprocess
\* How run_pipe runs a program: Popen with pipes, then Popen.communicate.  The
\* child is a script of blocking one-byte operations: "r" reads stdin, "o"
\* writes stdout, "e" writes stderr; it exits at the end of its script.
ChildOps == {"r", "o", "e"}
Scripts == UNION {[1..n -> ChildOps] : n \in 0..MaxScript}

\* No program has been started.
NoComm == [pc |-> "idle", mode |-> "pipe", input |-> 0, stdin |-> "closed",
           pin |-> 0, pout |-> 0, perr |-> 0, rout |-> "closed", rerr |-> "closed",
           script |-> <<>>, child |-> "none", pressure |-> FALSE]

\* History field pressure: both the stdin pipe and the stdout pipe were full
\* while input was left to feed.
Mark(c) ==
    [c EXCEPT !.pressure = @ \/ (c.pc = "communicate" /\ c.stdin = "open" /\ c.input > 0
                                  /\ c.pin = PipeCap /\ c.pout = PipeCap)]

\* view.py:322-325: Popen(command_parts, stdout=PIPE, stdin=PIPE, stderr=PIPE)
\* and the input read into memory (mode "pipe");
\* processloader.py:36-41: Popen(self.command, stdout=PIPE,
\* stdin=open(self.input_file_name, "rb"), stderr=PIPE) (mode "file": the child
\* reads the file itself).  Then communicate is entered.
Popen(mode, n, sc) ==
    /\ comm.pc = "idle"
    /\ comm' = [pc |-> "communicate", mode |-> mode, input |-> n,
                stdin |-> IF mode = "pipe" THEN "open" ELSE "closed",
                pin |-> 0, pout |-> 0, perr |-> 0, rout |-> "open", rerr |-> "open",
                script |-> sc, child |-> "running", pressure |-> FALSE]
    /\ UNCHANGED <<viewvars, plvars>>

\* The child's next operation; a read of an empty open pipe and a write to a
\* full pipe block.  A read at the end of the input returns nothing.
ChildStep ==
    /\ comm.child = "running"
    /\ LET c == comm
           rest == Tail(c.script)
       IN IF c.script = <<>>
          THEN comm' = [c EXCEPT !.child = "exited"]
          ELSE CASE Head(c.script) = "r" /\ c.mode = "file" ->
                        comm' = [c EXCEPT !.script = rest,
                                          !.input = IF @ > 0 THEN @ - 1 ELSE 0]
                 [] Head(c.script) = "r" /\ c.mode = "pipe" ->
                        /\ c.pin > 0 \/ c.stdin = "closed"
                        /\ comm' = [c EXCEPT !.script = rest,
                                             !.pin = IF @ > 0 THEN @ - 1 ELSE 0]
                 [] Head(c.script) = "o" ->
                        /\ c.pout < PipeCap
                        /\ comm' = Mark([c EXCEPT !.script = rest, !.pout = @ + 1])
                 [] Head(c.script) = "e" ->
                        /\ c.perr < PipeCap
                        /\ comm' = [c EXCEPT !.script = rest, !.perr = @ + 1]
    /\ UNCHANGED <<viewvars, plvars>>

\* The mutant of CanDrain: the output is read after the input has been written.
DrainAfterFeed(c) == c.stdin # "open"

\* view.py:326 p.communicate(input=input_file), processloader.py:44
\* p.communicate(): the read ends are served in the same loop as the write
\* end, whenever they have data.
CanDrain(c) == TRUE

\* communicate writes a piece of the input when the stdin pipe has room, and
\* closes stdin after the last piece.
Feed ==
    /\ comm.pc = "communicate"
    /\ comm.stdin = "open" /\ comm.child = "running"
    /\ comm.input > 0 /\ comm.pin < PipeCap
    /\ comm' = Mark([comm EXCEPT !.input = @ - 1, !.pin = @ + 1,
                                 !.stdin = IF comm.input = 1 THEN "closed" ELSE "open"])
    /\ UNCHANGED <<viewvars, plvars>>

\* communicate closes stdin at once when there is no input, and on the
\* BrokenPipeError of a write to a child that has exited.
CloseStdin ==
    /\ comm.pc = "communicate"
    /\ comm.stdin = "open"
    /\ comm.input = 0 \/ comm.child = "exited"
    /\ comm' = [comm EXCEPT !.stdin = "closed"]
    /\ UNCHANGED <<viewvars, plvars>>

\* communicate reads what the stdout pipe holds.
DrainOut ==
    /\ comm.pc = "communicate"
    /\ comm.rout = "open" /\ CanDrain(comm)
    /\ comm.pout > 0
    /\ comm' = [comm EXCEPT !.pout = 0]
    /\ UNCHANGED <<viewvars, plvars>>

\* communicate reads what the stderr pipe holds.
DrainErr ==
    /\ comm.pc = "communicate"
    /\ comm.rerr = "open" /\ CanDrain(comm)
    /\ comm.perr > 0
    /\ comm' = [comm EXCEPT !.perr = 0]
    /\ UNCHANGED <<viewvars, plvars>>

\* End of file on stdout: the pipe is empty and the child has exited.
EofOut ==
    /\ comm.pc = "communicate"
    /\ comm.rout = "open" /\ CanDrain(comm)
    /\ comm.pout = 0 /\ comm.child = "exited"
    /\ comm' = [comm EXCEPT !.rout = "closed"]
    /\ UNCHANGED <<viewvars, plvars>>

\* End of file on stderr.
EofErr ==
    /\ comm.pc = "communicate"
    /\ comm.rerr = "open" /\ CanDrain(comm)
    /\ comm.perr = 0 /\ comm.child = "exited"
    /\ comm' = [comm EXCEPT !.rerr = "closed"]
    /\ UNCHANGED <<viewvars, plvars>>

\* communicate returns: all its ends are closed and wait() has the exit code.
Wait ==
    /\ comm.pc = "communicate"
    /\ comm.stdin = "closed" /\ comm.rout = "closed" /\ comm.rerr = "closed"
    /\ comm.child = "exited"
    /\ comm' = [comm EXCEPT !.pc = "done"]
    /\ UNCHANGED <<viewvars, plvars>>

\* The steps of Popen.communicate.
Communicate == Feed \/ CloseStdin \/ DrainOut \/ DrainErr \/ EofOut \/ EofErr \/ Wait

PipeNext ==
    \/ \E mode \in {"pipe", "file"}, n \in 0..MaxInput, sc \in Scripts : Popen(mode, n, sc)
    \/ ChildStep
    \/ Feed
    \/ CloseStdin
    \/ DrainOut
    \/ DrainErr
    \/ EofOut
    \/ EofErr
    \/ Wait

\* ------------------------------------------------------------------ FsdbView
File(p) == [kind |-> "file", name |-> p]
Str(p) == [kind |-> "str", name |-> p]

EmptyTable == [columns |-> <<>>, rows |-> <<>>]

\* The record of the last request: its handler; for run_pipe the command,
\* whether the program started, its exit code and what it wrote to stderr
\* (the text of the exception when it did not start); for save_current the
\* file name typed.
Op(name) == [op |-> name, cmd |-> CmdTrue, launched |-> FALSE, rc |-> 0,
             err |-> "", path |-> OrigPath]

\* FsdbView.load_data on the open file `file`: the loader, the rows and the
\* table afterwards, and whether it raised (then rows and table are as they were
\* and the new loader is left without iterator).
load_data(disk, file, table, old_rows, quota) ==
    LET l0 == FsdbLoader(file.name, disk[file.name])
    IN IF ~l0.src.wf
       THEN [loader |-> l0, rows |-> old_rows, data_table |-> table, raised |-> TRUE]
       ELSE LET l1 == FsdbLoaderLoadData(l0)
                r == FsdbLoaderLoadMore(l1, <<>>, quota)
            IN [loader |-> r.loader, rows |-> r.rows,
                data_table |-> [columns |-> table.columns \o l1.fsh.cols,
                                rows |-> table.rows \o r.ret],
                raised |-> FALSE]

\* FsdbView.reload_data: data_table.clear(columns=True), then load_data.
reload_data(disk, file, old_rows, quota) ==
    load_data(disk, file, EmptyTable, old_rows, quota)

\* The state after FsdbView.__init__ and compose, for an input file of n rows.
Init ==
    /\ app = "new"
    /\ exception = "none"
    /\ \E n \in {0, MaxRows} :
          /\ fs = (OrigPath :> Table(n))
          /\ orig = Table(n)
    /\ hist = "push"
    /\ next_tmp = 0
    /\ input_files = <<OrigPath>>
    /\ input_file = File(OrigPath)
    /\ max_rows \in Quotas
    /\ loader = NoViewLoader
    /\ rows = <<>>
    /\ data_table = EmptyTable
    /\ current_input = "none"
    /\ history_log = <<>>
    /\ last_debug = ""
    /\ last_op = Op("init")
    /\ applied = <<>>
    /\ pl = NoLoader
    /\ current_rows = <<>>
    /\ pl_ret = <<>>
    /\ pl_call = NoCall
    /\ comm = NoComm

\* Key bindings reach the app unless an Input widget has the focus.
KeysEnabled == app = "running" /\ current_input \notin {"save", "pipe", "filter"}

\* An exception that no handler catches ends the app.
Crash(name) == app' = "crashed" /\ exception' = name

\* FsdbView.on_mount
on_mount ==
    /\ app = "new"
    /\ LET r == load_data(fs, input_file, data_table, rows, max_rows)
       IN /\ loader' = r.loader
          /\ rows' = r.rows
          /\ data_table' = r.data_table
          /\ IF r.raised THEN Crash("ValueError")
                         ELSE app' = "running" /\ UNCHANGED exception
    /\ last_op' = Op("on_mount")
    /\ UNCHANGED <<fs, next_tmp, input_files, input_file, max_rows, current_input,
                   history_log, last_debug, applied, hist, orig, plvars, comm>>

\* FsdbView.action_load_more_data
action_load_more_data ==
    /\ KeysEnabled
    /\ IF loader.bound
       THEN LET r == FsdbLoaderLoadMore(loader, rows, max_rows)
            IN /\ loader' = r.loader
               /\ rows' = r.rows
               /\ data_table' = [data_table EXCEPT !.rows = @ \o r.ret]
               /\ UNCHANGED <<app, exception>>
       ELSE /\ Crash("TypeError")
            /\ UNCHANGED <<loader, rows, data_table>>
    /\ last_op' = Op("load_more_data")
    /\ UNCHANGED <<fs, next_tmp, input_files, input_file, max_rows, current_input,
                   history_log, last_debug, applied, hist, orig, plvars, comm>>

\* view.py:328  tmp.write(output_data[0])
ViewStored(output_data) == output_data.out

\* What a reader finds in a file written through a buffered handle: the bytes
\* written once the handle is closed; nothing before, the output being still in
\* the buffer.
OnDisk(written, closed) == IF closed THEN written ELSE NoTable

\* The mutant of TmpClosedAtReload: reload_data is called inside the with block.
TmpOpenAtReload == FALSE

\* view.py:327-331  reload_data is called after the with block, which closes
\* tmp on its way out.
TmpClosedAtReload == TRUE

\* view.py:329  self.input_files.append(tmp.name)
PushVersion(stack, name) == Append(stack, name)

\* The mutant of PopVersion: nothing is popped.
PopVersionKeeps(stack) == stack

\* view.py:194  self.input_files.pop()
PopVersion(stack) == Front(stack)

\* The mutant of RunPipeExcept: the exception is not caught.
RunPipeExceptRaises == Crash("Exception") /\ UNCHANGED last_debug

\* view.py:332-333  except Exception as e: self.debug(f"failed with {e}")
RunPipeExcept == last_debug' = "failed with exception" /\ UNCHANGED <<app, exception>>

\* FsdbView.run_pipe(command): its try block and its except clause; any
\* exception is caught and only written to the debug log.  The exit code of the
\* program is not looked at.
run_pipe(cmd) ==
    LET readable == input_file.kind = "file" /\ input_file.name \in DOMAIN fs
        output_data == RunProgram(cmd, IF readable THEN fs[input_file.name] ELSE NoTable)
        tmp == TmpPath(next_tmp + 1)
        disk == [q \in DOMAIN fs \cup {tmp} |->
                    IF q = tmp THEN ViewStored(output_data) ELSE fs[q]]
        seen == [disk EXCEPT ![tmp] = OnDisk(ViewStored(output_data), TmpClosedAtReload)]
        r == reload_data(seen, File(tmp), rows, max_rows)
    IN IF ~output_data.launched \/ ~readable
       THEN \* Popen raised, or self.input_file.name / open() raised
            /\ RunPipeExcept
            /\ last_op' = [Op("run_pipe") EXCEPT !.cmd = cmd,
                                                 !.launched = output_data.launched,
                                                 !.err = output_data.err]
            /\ UNCHANGED <<fs, next_tmp, input_files, input_file, loader, rows,
                           data_table, applied, hist, orig>>
       ELSE /\ next_tmp < MaxTmp
            /\ fs' = disk
            /\ next_tmp' = next_tmp + 1
            /\ input_files' = PushVersion(input_files, tmp)
            /\ input_file' = File(tmp)
            /\ loader' = r.loader
            /\ rows' = r.rows
            /\ data_table' = r.data_table
            /\ IF r.raised THEN RunPipeExcept
                           ELSE UNCHANGED <<app, exception, last_debug>>
            /\ last_op' = [Op("run_pipe") EXCEPT !.cmd = cmd, !.launched = TRUE,
                                                 !.rc = output_data.rc,
                                                 !.err = output_data.err]
            /\ applied' = Append(applied, cmd.name)
            /\ hist' = IF output_data.rc = 0 /\ hist = "push" THEN "push" ELSE "other"

\* FsdbView.action_pipe: the dialog asking for a command.
action_pipe ==
    /\ KeysEnabled
    /\ current_input' = "pipe"
    /\ last_op' = Op("action_pipe")
    /\ UNCHANGED <<app, exception, fs, next_tmp, input_files, input_file, max_rows,
                   loader, rows, data_table, history_log, last_debug, applied, hist, orig,
                   plvars, comm>>

\* The commands typed into the dialogs.
TypedCommands == {CmdFilter, CmdTrue, CmdFalse, CmdNoSuch}

\* FsdbView.run_entered_command, called by on_button_pressed for the Ok button
\* of the command dialog; on_button_pressed then removes the dialog.
run_entered_command(cmd) ==
    /\ app = "running"
    /\ current_input = "pipe"
    /\ run_pipe(cmd)
    /\ current_input' = "none"
    /\ UNCHANGED <<max_rows, history_log, orig, plvars, comm>>

\* FsdbView.action_filter: run_command_with_arguments mounts the prompt.
action_filter ==
    /\ KeysEnabled
    /\ current_input' = "filter"
    /\ last_op' = Op("action_filter")
    /\ UNCHANGED <<app, exception, fs, next_tmp, input_files, input_file, max_rows,
                   loader, rows, data_table, history_log, last_debug, applied, hist, orig,
                   plvars, comm>>

\* RunCommandWithArguments.action_submit: runs the command and removes the
\* prompt; FsdbView.current_input keeps naming the removed prompt.
action_submit ==
    /\ app = "running"
    /\ current_input = "filter"
    /\ run_pipe(CmdFilter)
    /\ current_input' = "removed"
    /\ UNCHANGED <<max_rows, history_log, orig, plvars, comm>>

\* FsdbView.action_remove_column: dbcol with every column of the table but the
\* one under the cursor, which is on the first column after the table was
\* cleared and filled.
action_remove_column ==
    /\ KeysEnabled
    /\ IF data_table.columns = <<>>
       THEN run_pipe(CmdCol(<<>>))
       ELSE run_pipe(CmdCol(RemoveAt(data_table.columns, 1)))
    /\ UNCHANGED <<max_rows, current_input, history_log, orig, plvars, comm>>

\* The mutant of ReopenTop: the file that was current stays current.
ReopenStale(stack) == input_file

\* view.py:195  self.input_file = open(self.input_files[-1], "r")
ReopenTop(stack) == File(Last(stack))

\* FsdbView.action_undo.  Nothing is caught here: popping the last name leaves
\* an empty list and input_files[-1] raises IndexError.
action_undo ==
    /\ KeysEnabled
    /\ LET stack == PopVersion(input_files)
       IN /\ input_files' = stack
          /\ IF stack = <<>>
             THEN /\ Crash("IndexError")
                  /\ UNCHANGED <<input_file, loader, rows, data_table>>
             ELSE IF Last(stack) \notin DOMAIN fs
             THEN /\ Crash("FileNotFoundError")
                  /\ UNCHANGED <<input_file, loader, rows, data_table>>
             ELSE LET r == reload_data(fs, ReopenTop(stack), rows, max_rows)
                  IN /\ input_file' = ReopenTop(stack)
                     /\ loader' = r.loader
                     /\ rows' = r.rows
                     /\ data_table' = r.data_table
                     /\ IF r.raised THEN Crash("ValueError")
                                    ELSE UNCHANGED <<app, exception>>
    /\ applied' = IF applied = <<>> THEN applied ELSE Front(applied)
    /\ hist' = IF hist \in {"push", "pop"} /\ applied # <<>> THEN "pop" ELSE "other"
    /\ last_op' = Op("undo")
    /\ UNCHANGED <<fs, next_tmp, max_rows, current_input, history_log, last_debug,
                   orig, plvars, comm>>

\* FsdbView.action_save: refuses while only the original file is in the stack,
\* else mounts the dialog asking for a file name.
action_save ==
    /\ KeysEnabled
    /\ IF Len(input_files) = 1
       THEN \* self.error("Cannot rename the unmodified original file")
            /\ current_input' = "error"
            /\ last_op' = Op("action_save")
       ELSE /\ current_input' = "save"
            /\ last_op' = Op("action_save")
    /\ UNCHANGED <<app, exception, fs, next_tmp, input_files, input_file, max_rows,
                   loader, rows, data_table, history_log, last_debug, applied, hist, orig,
                   plvars, comm>>

\* os.rename(src, dst): dst names what src named, replacing what dst named
\* before; src names nothing afterwards (unless it is dst).
Rename(disk, src, dst) ==
    [q \in (DOMAIN disk \ {src}) \cup {dst} |-> IF q = dst THEN disk[src] ELSE disk[q]]

\* The file names a user may type: a name of their own and the name of the
\* original input.
SavePaths == {UserPath, OrigPath}

\* FsdbView.save_current, called by on_button_pressed for the Ok button of the
\* save dialog; on_button_pressed then removes the dialog.
save_current(path) ==
    /\ app = "running"
    /\ current_input = "save"
    /\ IF Last(input_files) \notin DOMAIN fs
       THEN /\ Crash("FileNotFoundError")
            /\ UNCHANGED <<fs, input_files, input_file, current_input>>
       ELSE /\ fs' = Rename(fs, Last(input_files), path)
            /\ input_file' = Str(path)
            /\ input_files' = [input_files EXCEPT ![Len(input_files)] = path]
            /\ current_input' = "none"
            /\ UNCHANGED <<app, exception>>
    /\ hist' = "other"
    /\ last_op' = [Op("save_current") EXCEPT !.path = path]
    /\ UNCHANGED <<next_tmp, max_rows, loader, rows, data_table, history_log,
                   last_debug, applied, orig, plvars, comm>>

\* FsdbView.action_show_history: the sentinel when the loader has no commands;
\* otherwise the loop reads self.fsh, which FsdbView does not have.
action_show_history ==
    /\ KeysEnabled
    /\ last_debug' = "showing history"
    /\ IF FsdbLoaderCommands(loader).none
       THEN /\ history_log' = <<"[HISTORY UNAVAILABLE]">>
            /\ current_input' = "history"
            /\ UNCHANGED <<app, exception>>
       ELSE /\ history_log' = <<>>
            /\ Crash("AttributeError")
            /\ UNCHANGED current_input
    /\ last_op' = Op("show_history")
    /\ UNCHANGED <<fs, next_tmp, input_files, input_file, max_rows, loader, rows,
                   data_table, applied, hist, orig, plvars, comm>>

\* FsdbView.action_cancel (escape, and the Cancel and Close buttons): removes
\* the dialog, or leaves the app when there is none.
action_cancel ==
    /\ app = "running"
    /\ IF current_input # "none"
       THEN current_input' = "none" /\ UNCHANGED app
       ELSE app' = "exited" /\ UNCHANGED current_input
    /\ last_op' = Op("cancel")
    /\ UNCHANGED <<exception, fs, next_tmp, input_files, input_file, max_rows,
                   loader, rows, data_table, history_log, last_debug, applied, hist, orig,
                   plvars, comm>>

\* FsdbView.action_exit
action_exit ==
    /\ KeysEnabled
    /\ app' = "exited"
    /\ last_op' = Op("exit")
    /\ UNCHANGED <<exception, fs, next_tmp, input_files, input_file, max_rows,
                   loader, rows, data_table, current_input, history_log, last_debug,
                   applied, hist, orig, plvars, comm>>

Next ==
    \/ on_mount
    \/ action_load_more_data
    \/ action_pipe
    \/ \E cmd \in TypedCommands : run_entered_command(cmd)
    \/ action_filter
    \/ action_submit
    \/ action_remove_column
    \/ action_undo
    \/ action_save
    \/ \E path \in SavePaths : save_current(path)
    \/ action_show_history
    \/ action_cancel
    \/ action_exit

\* A session of the viewer.
Spec == Init /\ [][Next]_vars

\* A ProcessLoader and its caller, with no viewer session.
LoaderInit == Init /\ max_rows = NoLimit /\ orig = Table(0)
LoaderSpec == LoaderInit /\ [][PLNext]_vars

\* A run of a program alone.  The parent keeps running its communicate loop
\* and the child keeps running its script while they are not blocked.
PipeInit == Init /\ max_rows = NoLimit /\ orig = Table(0)
PipeSpec ==
    PipeInit /\ [][PipeNext]_vars /\ WF_vars(Communicate) /\ WF_vars(ChildStep)

\* ------------------------------------------------------------------- claims

\* C1: a transform whose program exits with a non-zero code leaves the version
\* stack, the current file, the history and the loaded rows as they were.
C1_FailedTransformAtomic ==
    [][(last_op'.op = "run_pipe" /\ last_op'.launched /\ last_op'.rc # 0)
          => /\ input_files' = input_files
             /\ input_file' = input_file
             /\ applied' = applied
             /\ rows' = rows]_vars

\* C2: after n successful transforms from the start of the session followed by
\* n undos, the version stack holds exactly the original input, which is the
\* current file, and its content is what it was at the start.
C2_UndoRestoresOriginal ==
    (hist \in {"push", "pop"} /\ applied = <<>>)
        => /\ input_files = <<OrigPath>>
           /\ input_file = File(OrigPath)
           /\ OrigPath \in DOMAIN fs
           /\ fs[OrigPath] = orig

\* Two transforms were undone by two undos.
C2_Witness ==
    /\ hist = "pop"
    /\ applied = <<>>
    /\ next_tmp >= 2
    /\ app = "running"
    /\ input_files = <<OrigPath>>

\* C3: the version stack is never empty and starts with the original input; an
\* undo with only the original in the stack changes neither the stack nor the
\* current file.
C3_StackNeverEmpty ==
    [][/\ Len(input_files') >= 1
       /\ input_files'[1] = OrigPath
       /\ (last_op'.op = "undo" /\ Len(input_files) = 1)
             => (input_files' = input_files /\ input_file' = input_file)]_vars

\* C4: the history shown lists the original (with no command) and then the
\* command of every version in the stack in push order; the command of a
\* version popped by undo is not in it.
C4_HistoryTracksStack ==
    last_op.op = "show_history" => history_log = <<"original">> \o applied

\* C5: loading in batches of any quota accumulates the rows of the stream in
\* order, none skipped or repeated at a batch boundary; at the end of the
\* stream the list is what a single load without quota gives after binding.
C5_BatchIndependence ==
    pl.fsh.open
        => /\ current_rows = SubSeq(pl.fsh.stream, 1, pl.fsh.pos)
           /\ pl.fsh.pos = Len(pl.fsh.stream)
                 => current_rows =
                       load_more_data(Fsdb(pl.temp_file), <<>>, NoLimit).current_rows

\* The stream was exhausted by a batch with a quota that did not start at the
\* first row.
C5_Witness ==
    /\ pl.fsh.open
    /\ pl_call.op = "load_more_data"
    /\ pl_call.max_rows = 1
    /\ pl_call.pos0 > 0
    /\ pl.fsh.pos = Len(pl.fsh.stream)
    /\ Len(current_rows) >= 3

\* C6: a load_more_data call with a positive quota k returns at most k rows.
C6_BatchWithinQuota ==
    (pl_call.op = "load_more_data" /\ pl_call.max_rows >= 1)
        => Len(pl_ret) <= pl_call.max_rows

\* C7: a load_more_data call returns the rows it read, which follow the rows
\* read before, and appends them to the caller's list; a call at the end of the
\* stream returns nothing and leaves the list as it was.
C7_ReturnsNewRows ==
    pl_call.op = "load_more_data"
        => /\ pl.fsh.pos >= pl_call.pos0
           /\ pl_ret = SubSeq(pl.fsh.stream, pl_call.pos0 + 1, pl.fsh.pos)
           /\ current_rows = pl_call.rows0 \o pl_ret
           /\ pl_call.pos0 = Len(pl.fsh.stream)
                 => (pl_ret = <<>> /\ current_rows = pl_call.rows0)

\* A call made after the end of a stream of several rows.
C7_Witness ==
    /\ pl_call.op = "load_more_data"
    /\ pl_call.pos0 = Len(pl.fsh.stream)
    /\ Len(pl_call.rows0) >= 2
    /\ pl_ret = <<>>

\* C8: when the command ran and wrote a table, load_data does not raise and
\* column_names is the column list of the command's output; for the row filter
\* that is the input's column list, whether or not the input has rows.
C8_ColumnNames ==
    LET output_data == RunProgram(pl.command, pl.input)
    IN (pl.built /\ output_data.launched /\ output_data.out.wf)
          => /\ pl_call.op = "load_data" => ~pl_call.raised
             /\ pl.fsh.open
                   => /\ column_names(pl) = output_data.out.cols
                      /\ pl.command = CmdFilter => column_names(pl) = pl.input.cols

\* The row filter on an input without rows, loaded.
C8_Witness ==
    /\ pl.built
    /\ pl.command = CmdFilter
    /\ pl.input.rows = <<>>
    /\ pl_call.op = "load_data"
    /\ pl.fsh.open
    /\ column_names(pl) = <<"a", "b", "c">>

\* C9: a file named by the version stack keeps its content and its name while
\* the stack names it, whatever is transformed, undone or saved.
C9_SnapshotsImmutable ==
    [][\A i \in 1..Len(input_files') :
          (i <= Len(input_files) /\ input_files'[i] = input_files[i]
             /\ input_files[i] \in DOMAIN fs)
             => /\ input_files[i] \in DOMAIN fs'
                /\ fs'[input_files[i]] = fs[input_files[i]]]_vars

\* C10: a save to a name that exists fails and changes nothing; a save that
\* succeeds gives the current content under the new name and keeps the file
\* the content was in.
C10_SaveKeepsFiles ==
    [][last_op'.op = "save_current"
          => IF last_op'.path \in DOMAIN fs
             THEN /\ fs' = fs
                  /\ input_files' = input_files
                  /\ input_file' = input_file
             ELSE /\ fs'[last_op'.path] = fs[Last(input_files)]
                  /\ Last(input_files) \in DOMAIN fs'
                  /\ fs'[Last(input_files)] = fs[Last(input_files)]]_vars

ErrorShown ==
    IF current_input = "error" THEN "Cannot rename the unmodified original file"
                               ELSE ""

\* C12: after a transform that failed, an error dialog tells the user: a
\* message about the launch when the program could not be started, the text
\* the program wrote to stderr when it exited with a non-zero code.
C12_FailureReported ==
    (app = "running" /\ last_op.op = "run_pipe")
       => /\ ~last_op.launched
                => ErrorShown \notin {"", "Cannot rename the unmodified original file"}
          /\ (last_op.launched /\ last_op.rc # 0)
                => (current_input = "error" /\ ErrorShown = last_op.err)

\* C13: showing the history never raises: the dialog is shown, with the one
\* line "[HISTORY UNAVAILABLE]" when the loader has no command list and with
\* the commands of the file, in the file's order, when it has one.
C13_HistoryNeverRaises ==
    last_op.op = "show_history"
       => /\ app = "running"
          /\ current_input = "history"
          /\ history_log = IF FsdbLoaderCommands(loader).none
                           THEN <<"[HISTORY UNAVAILABLE]">>
                           ELSE FsdbLoaderCommands(loader).list

\* C14: a new version whose header cannot be parsed (the output of a program
\* that exited with 0) does not end the app, and an undo from such a version
\* goes back to the version below it, with the loader bound to it.
C14_FormatErrorRecoverable ==
    [][/\ (last_op'.op = "run_pipe" /\ last_op'.rc = 0 /\ next_tmp' # next_tmp)
             => app' = "running"
       /\ (last_op'.op = "undo" /\ Len(input_files) >= 2 /\ ~loader.bound)
             => /\ app' = "running"
                /\ input_files' = Front(input_files)
                /\ input_file' = File(Last(input_files'))
                /\ loader'.bound
                /\ loader'.name = Last(input_files')]_vars

C17_CurrentIsTop ==
    (app = "running" /\ last_op.op \in {"run_pipe", "undo", "save_current"})
       => /\ input_files # <<>>
          /\ input_file = File(Last(input_files))

\* C18: while the loader stays bound to one version the number of rows loaded
\* never goes down, and every change of the top of the stack by a push of a
\* successful transform or by an undo leaves the loader bound to the new top,
\* the rows being the first rows of that version and of no other.
C18_RowsOfOneSnapshot ==
    [][/\ (loader.bound /\ loader'.bound /\ loader'.name = loader.name
              /\ loader'.src = loader.src /\ input_files' = input_files)
             => Len(rows') >= Len(rows)
       /\ (/\ \/ last_op'.op = "run_pipe" /\ last_op'.rc = 0
              \/ last_op'.op = "undo"
           /\ input_files' # input_files
           /\ input_files' # <<>>)
             => /\ loader'.bound
                /\ loader'.name = Last(input_files')
                /\ rows' = SubSeq(loader'.fsh.stream, 1, loader'.fsh.pos)
                /\ data_table'.rows = rows']_vars

C20_OriginalNeverRenamed ==
    [][/\ (last_op'.op = "action_save" /\ Last(input_files) = OrigPath)
             => /\ current_input' = "error"
                /\ UNCHANGED <<fs, input_files, input_file>>
       /\ last_op'.op = "save_current" => Last(input_files) # OrigPath
       /\ OrigPath \in DOMAIN fs']_vars

====
